---------------------------- MODULE Spec2Model ----------------------------
(***************************************************************************)
(* A model of vingo, a text-template compiler and renderer:                *)
(*   tokenize -> compileTokens -> Node.Eval, the condition evaluator, and  *)
(*   the compiled-template cache behind Render / getOrCompile.             *)
(*                                                                         *)
(* Go strings are sequences of one-character strings: "if x" is            *)
(* <<"i", "f", " ", "x">>.  Go values (interface{}) are tagged records.    *)
(***************************************************************************)
EXTENDS Integers, Sequences, FiniteSets, TLC

VARIABLES
    file,       \* the template file on disk: [exists, content, mod]
    tplCache,   \* tplCache: a function from the paths stored to their Templates
    readers,    \* cacheMutex: number of holders of the shared (read) lock
    writer,     \* cacheMutex: the holder of the exclusive lock, or NoProc
    call,       \* per caller: the position and locals of its Render call
    hist,       \* history: what the callers and the file system have done
    input,      \* the input of the compile pipeline or of the evaluator
    stage,      \* how far the pipeline has run on input
    output      \* what the pipeline has produced so far

vars == <<file, tplCache, readers, writer, call, hist, input, stage, output>>

cacheVars == <<file, tplCache, readers, writer, call, hist>>
pureVars == <<input, stage, output>>

-----------------------------------------------------------------------------
(* Strings *)

WhiteSpace == {" ", "\t", "\n", "\r"}

Digits == <<"0", "1", "2", "3", "4", "5", "6", "7", "8", "9">>

Letters ==
    {"a", "b", "c", "d", "e", "f", "g", "h", "i", "j", "k", "l", "m",
     "n", "o", "p", "q", "r", "s", "t", "u", "v", "w", "x", "y", "z",
     "A", "B", "C", "D", "E", "F", "G", "H", "I", "J", "K", "L", "M",
     "N", "O", "P", "Q", "R", "S", "T", "U", "V", "W", "X", "Y", "Z"}

IsDigit(c) == \E i \in 1..10 : Digits[i] = c

\* \w of the regular expressions
IsWordChar(c) == c \in Letters \/ IsDigit(c) \/ c = "_"

Max(S) == CHOOSE x \in S : \A y \in S : y <= x
Min(S) == CHOOSE x \in S : \A y \in S : x <= y

Drop(s, n) == SubSeq(s, n + 1, Len(s))
Take(s, n) == SubSeq(s, 1, n)

HasPrefix(s, p) == Len(s) >= Len(p) /\ Take(s, Len(p)) = p
HasSuffix(s, p) == Len(s) >= Len(p) /\ Drop(s, Len(s) - Len(p)) = p

\* strings.Index: the first position (1-based) where sep starts in s, 0 if none
Index(s, sep) ==
    LET at == {i \in 1..(Len(s) - Len(sep) + 1) : SubSeq(s, i, i + Len(sep) - 1) = sep}
    IN IF at = {} THEN 0 ELSE Min(at)

\* number of leading / trailing white-space characters
LeadSpace(s) ==
    LET n == {i \in 1..Len(s) : s[i] \notin WhiteSpace}
    IN IF n = {} THEN Len(s) ELSE Min(n) - 1
TrailSpace(s) ==
    LET n == {i \in 1..Len(s) : s[i] \notin WhiteSpace}
    IN IF n = {} THEN Len(s) ELSE Len(s) - Max(n)

TrimSpace(s) ==
    IF LeadSpace(s) = Len(s) THEN <<>>
    ELSE SubSeq(s, LeadSpace(s) + 1, Len(s) - TrailSpace(s))

\* strings.Split(s, sep) for a non-empty sep
RECURSIVE Split(_, _)
Split(s, sep) ==
    LET i == Index(s, sep)
    IN IF i = 0 THEN <<s>>
       ELSE <<Take(s, i - 1)>> \o Split(Drop(s, i - 1 + Len(sep)), sep)

\* strings.SplitN(s, sep, 2)
SplitN2(s, sep) ==
    LET i == Index(s, sep)
    IN IF i = 0 THEN <<s>>
       ELSE <<Take(s, i - 1), Drop(s, i - 1 + Len(sep))>>

RECURSIVE Concat(_)
Concat(ss) == IF ss = <<>> THEN <<>> ELSE Head(ss) \o Concat(Tail(ss))

\* the regular expressions' "." : any character but a line feed
NoNewline(s) == \A i \in 1..Len(s) : s[i] # "\n"

-----------------------------------------------------------------------------
(* Tokenizer *)

OpenMarker == <<"<", "{">>
CloseMarker == <<"}", ">">>

NoMatch == [ok |-> FALSE, m1 |-> <<>>, m2 |-> <<>>]
Matched(a, b) == [ok |-> TRUE, m1 |-> a, m2 |-> b]

\* ^kw\s+(.+)$ : the keyword, white space (greedy), and a non-empty rest
KeywordExpr(tag, kw) ==
    IF ~HasPrefix(tag, kw) THEN NoMatch
    ELSE LET r == Drop(tag, Len(kw))
             ks == {k \in 1..LeadSpace(r) : k < Len(r) /\ NoNewline(Drop(r, k))}
         IN IF ks = {} THEN NoMatch ELSE Matched(Drop(r, Max(ks)), <<>>)

ifPattern(tag) == KeywordExpr(tag, <<"i", "f">>)
elseifPattern(tag) == KeywordExpr(tag, <<"e", "l", "s", "e", "i", "f">>)
elsePattern(tag) == tag = <<"e", "l", "s", "e">>
endifPattern(tag) == tag = <<"/", "i", "f">>
endforPattern(tag) == tag = <<"/", "f", "o", "r">>
switchPattern(tag) == KeywordExpr(tag, <<"s", "w", "i", "t", "c", "h">>)
casePattern(tag) == KeywordExpr(tag, <<"c", "a", "s", "e">>)
defaultPattern(tag) == tag = <<"d", "e", "f", "a", "u", "l", "t">>
endswitchPattern(tag) == tag = <<"/", "s", "w", "i", "t", "c", "h">>

\* \s+in\s+(.+)$ on the text after the loop variables
InTail(t) ==
    LET a == LeadSpace(t)
        u == Drop(t, a)
    IN IF a = 0 \/ ~HasPrefix(u, <<"i", "n">>) THEN NoMatch
       ELSE KeywordExpr(u, <<"i", "n">>)

\* ^for\s+(.+)\s+in\s+(.+)$ : every quantifier greedy, so the white space after
\* "for" is taken as long as a match allows, then the variables as long as one does
forPattern(tag) ==
    IF ~HasPrefix(tag, <<"f", "o", "r">>) THEN NoMatch
    ELSE LET r == Drop(tag, 3)
             cands == {ke \in (1..LeadSpace(r)) \X (1..Len(r)) :
                          /\ ke[2] > ke[1]
                          /\ NoNewline(SubSeq(r, ke[1] + 1, ke[2]))
                          /\ InTail(Drop(r, ke[2])).ok}
         IN IF cands = {} THEN NoMatch
            ELSE LET k == Max({ke[1] : ke \in cands})
                     e == Max({ke[2] : ke \in {c \in cands : c[1] = k}})
                 IN Matched(SubSeq(r, k + 1, e), InTail(Drop(r, e)).m1)

\* \w+(?:\.\w+)* over the whole of p
IsDottedPath(p) ==
    /\ p # <<>>
    /\ \A i \in 1..Len(p) : IsWordChar(p[i]) \/ p[i] = "."
    /\ p[1] # "." /\ p[Len(p)] # "."
    /\ \A i \in 1..(Len(p) - 1) : ~(p[i] = "." /\ p[i + 1] = ".")

\* the length of the longest prefix of t made of word characters and dots
PathLen(t) ==
    LET stop == {i \in 1..Len(t) : ~(IsWordChar(t[i]) \/ t[i] = ".")}
    IN IF stop = {} THEN Len(t) ELSE Min(stop) - 1

\* (?:\s*\|\s*"(.*?)")?\s*$ on what follows the path: rest is that text trimmed,
\* lit what follows its first character, trimmed
VarDefault(path, rest, lit) ==
    IF rest = <<>> THEN Matched(path, <<>>)
    ELSE IF /\ Head(rest) = "|"
            /\ Len(lit) >= 2 /\ Head(lit) = "\"" /\ lit[Len(lit)] = "\""
            /\ NoNewline(lit)
         THEN Matched(path, SubSeq(lit, 2, Len(lit) - 1))
    ELSE NoMatch

VarRest(path, rest) ==
    IF ~IsDottedPath(path) THEN NoMatch
    ELSE VarDefault(path, rest, TrimSpace(Drop(rest, 1)))

VarSplit(t, n) == VarRest(Take(t, n), TrimSpace(Drop(t, n)))

VarTrimmed(t) == VarSplit(t, PathLen(t))

\* ^\s*(\w+(?:\.\w+)*)(?:\s*\|\s*"(.*?)")?\s*$
varPattern(tag) == VarTrimmed(TrimSpace(tag))

Token(type, value, default, raw) ==
    [Type |-> type, Value |-> value, Default |-> default, Raw |-> raw]

TextToken(value) == Token("TText", value, <<>>, <<>>)

\* the switch of tokenize: the first pattern that matches the tag decides; mIf ..
\* mVar are the matches of the patterns that capture
Classify(tag, mIf, mElseIf, mFor, mSwitch, mCase, mVar) ==
    IF mIf.ok THEN Token("TIf", mIf.m1, <<>>, tag)
    ELSE IF mElseIf.ok THEN Token("TElseIf", mElseIf.m1, <<>>, tag)
    ELSE IF elsePattern(tag) THEN Token("TElse", <<>>, <<>>, tag)
    ELSE IF endifPattern(tag) THEN Token("TEndIf", <<>>, <<>>, tag)
    ELSE IF mFor.ok
         THEN Token("TFor", TrimSpace(mFor.m1) \o <<":">> \o TrimSpace(mFor.m2), <<>>, tag)
    ELSE IF endforPattern(tag) THEN Token("TEndFor", <<>>, <<>>, tag)
    ELSE IF mSwitch.ok THEN Token("TSwitch", mSwitch.m1, <<>>, tag)
    ELSE IF mCase.ok THEN Token("TCase", mCase.m1, <<>>, tag)
    ELSE IF defaultPattern(tag) THEN Token("TDefault", <<>>, <<>>, tag)
    ELSE IF endswitchPattern(tag) THEN Token("TEndSwitch", <<>>, <<>>, tag)
    ELSE IF mVar.ok THEN Token("TVar", mVar.m1, mVar.m2, tag)
    ELSE Token("TText", OpenMarker \o tag \o CloseMarker, <<>>, tag)

ClassifyTag(tag) ==
    Classify(tag, ifPattern(tag), elseifPattern(tag), forPattern(tag),
             switchPattern(tag), casePattern(tag), varPattern(tag))

\* the body of tokenize's loop for one part, sub being strings.SplitN(part, "}>", 2)
TokenizeSub(part, sub) ==
    IF Len(sub) = 2
    THEN <<ClassifyTag(TrimSpace(sub[1]))>>
         \o (IF sub[2] # <<>> THEN <<TextToken(sub[2])>> ELSE <<>>)
    ELSE <<TextToken(OpenMarker \o part)>>

TokenizePart(part) ==
    IF part = <<>> THEN <<>> ELSE TokenizeSub(part, SplitN2(part, CloseMarker))

RECURSIVE TokenizeParts(_)
TokenizeParts(parts) ==
    IF parts = <<>> THEN <<>>
    ELSE TokenizePart(Head(parts)) \o TokenizeParts(Tail(parts))

tokenize(src) == TokenizeParts(Split(src, OpenMarker))

-----------------------------------------------------------------------------
(* Parser: tokens -> AST nodes.  Token indices are Go's (0-based): the token *)
(* at index i is tokens[i + 1].                                              *)

TextNode(text) == [kind |-> "Text", Text |-> text]
VarNode(name, default) ==
    [kind |-> "Var", Name |-> name, Default |-> default, Filters |-> <<>>]
IfBranch(expr, body) == [Expr |-> expr, Body |-> body]
IfNode(branches, else) == [kind |-> "If", Branches |-> branches, Else |-> else]
ForNode(indexVar, itemVar, listExpr, body) ==
    [kind |-> "For", IndexVar |-> indexVar, ItemVar |-> itemVar,
     ListExpr |-> listExpr, Body |-> body]
SwitchCase(cond, body) == [Cond |-> cond, Body |-> body]
SwitchNode(expr, cases, default) ==
    [kind |-> "Switch", Expr |-> expr, Cases |-> cases, Default |-> default]

\* the error values of the parser (fmt.Errorf), by their message
NoErr == [kind |-> "none", what |-> "", at |-> -1, type |-> ""]
\* an "unclosed" error that does not keep the index of the start token
ErrUnclosedAtZero(what, start) ==
    [kind |-> "unclosed", what |-> what, at |-> 0, type |-> ""]

ErrUnclosed(what, start) ==
    [kind |-> "unclosed", what |-> what, at |-> start, type |-> ""]
ErrUnexpected(where, type, at) ==
    [kind |-> "unexpected", what |-> where, at |-> at, type |-> type]
ErrInvalidFor == [kind |-> "invalid for tag", what |-> "for", at |-> -1, type |-> ""]

\* what a sub-parser returns: (node, next index, error)
Parsed(node, next) == [node |-> node, next |-> next, err |-> NoErr]
Failed(err) == [node |-> <<>>, next |-> 0, err |-> err]

LeafNode(t) ==
    IF t.Type = "TText" THEN TextNode(t.Value) ELSE VarNode(t.Value, t.Default)

Openers == {"TIf", "TFor", "TSwitch"}
Leaves == {"TText", "TVar"}

RECURSIVE parseNested(_, _)
RECURSIVE parseIf(_, _), IfLoop(_, _, _, _, _, _), IfStep(_, _, _, _, _, _, _),
          IfNested(_, _, _, _, _, _)
RECURSIVE parseFor(_, _), ForLoop(_, _, _, _), ForStep(_, _, _, _, _),
          ForNested(_, _, _, _)
RECURSIVE parseSwitch(_, _), SwitchLoop(_, _, _, _, _, _), SwitchStep(_, _, _, _, _, _, _),
          SwitchNested(_, _, _, _, _, _)

\* *currentBody = append(*currentBody, n): cur = 0 is elseBody, cur = k is
\* branches[k].Body
BranchAppend(branches, cur, n) ==
    IF cur = 0 THEN branches ELSE [branches EXCEPT ![cur].Body = Append(@, n)]
ElseAppend(elseBody, cur, n) == IF cur = 0 THEN Append(elseBody, n) ELSE elseBody

\* after a nested construct has been parsed inside an if
IfNested(tokens, start, branches, elseBody, cur, sub) ==
    IF sub.err # NoErr THEN Failed(sub.err)
    ELSE IfLoop(tokens, start, sub.next, BranchAppend(branches, cur, sub.node),
                ElseAppend(elseBody, cur, sub.node), cur)

\* the switch of parseIf's loop on token t at index i; depth stays 0 (it is never
\* incremented), so the source's depth # 0 branches are not reachable
IfStep(tokens, start, i, branches, elseBody, cur, t) ==
    CASE t.Type \in Openers ->
           IfNested(tokens, start, branches, elseBody, cur, parseNested(tokens, i))
      [] t.Type = "TEndIf" -> Parsed(IfNode(branches, elseBody), i + 1)
      [] t.Type = "TElseIf" ->
           IfLoop(tokens, start, i + 1, Append(branches, IfBranch(t.Value, <<>>)),
                  elseBody, Len(branches) + 1)
      [] t.Type = "TElse" -> IfLoop(tokens, start, i + 1, branches, <<>>, 0)
      [] t.Type \in Leaves ->
           IfLoop(tokens, start, i + 1, BranchAppend(branches, cur, LeafNode(t)),
                  ElseAppend(elseBody, cur, LeafNode(t)), cur)
      [] OTHER -> Failed(ErrUnexpected("if", t.Type, -1))

IfLoop(tokens, start, i, branches, elseBody, cur) ==
    IF i >= Len(tokens) THEN Failed(ErrUnclosed("if", start))
    ELSE IfStep(tokens, start, i, branches, elseBody, cur, tokens[i + 1])

parseIf(tokens, start) ==
    IfLoop(tokens, start, start + 1, <<IfBranch(tokens[start + 1].Value, <<>>)>>, <<>>, 1)

BodyAppend(node, n) == [node EXCEPT !.Body = Append(@, n)]

ForNested(tokens, start, node, sub) ==
    IF sub.err # NoErr THEN Failed(sub.err)
    ELSE ForLoop(tokens, start, sub.next, BodyAppend(node, sub.node))

ForStep(tokens, start, i, node, t) ==
    CASE t.Type \in Openers -> ForNested(tokens, start, node, parseNested(tokens, i))
      [] t.Type = "TEndFor" -> Parsed(node, i + 1)
      [] t.Type \in Leaves -> ForLoop(tokens, start, i + 1, BodyAppend(node, LeafNode(t)))
      [] OTHER -> Failed(ErrUnexpected("for", t.Type, -1))

ForLoop(tokens, start, i, node) ==
    IF i >= Len(tokens) THEN Failed(ErrUnclosed("for", start))
    ELSE ForStep(tokens, start, i, node, tokens[i + 1])

\* the loop variables of a for tag: left is "idx, item" or "item"
ForHeader(left, listExpr, p) ==
    IF Len(p) = 2 THEN ForNode(TrimSpace(p[1]), TrimSpace(p[2]), listExpr, <<>>)
    ELSE ForNode(<<>>, left, listExpr, <<>>)

ForSplit(left, listExpr) == ForHeader(left, listExpr, SplitN2(left, <<",">>))

\* parts is strings.SplitN(tokens[start].Value, ":", 2)
ForParts(tokens, start, parts) ==
    IF Len(parts) # 2 THEN Failed(ErrInvalidFor)
    ELSE ForLoop(tokens, start, start + 1, ForSplit(TrimSpace(parts[1]), TrimSpace(parts[2])))

parseFor(tokens, start) ==
    ForParts(tokens, start, SplitN2(tokens[start + 1].Value, <<":">>))

\* a flush that makes every unlabelled body the default, an empty one too
flushCaseAlways(node, currentCond, currentBody) ==
    IF currentCond # <<>>
    THEN [node EXCEPT !.Cases = Append(@, SwitchCase(currentCond, currentBody))]
    ELSE [node EXCEPT !.Default = currentBody]

\* flushCase: a labelled body becomes a case, an unlabelled non-empty body the default
flushCase(node, currentCond, currentBody) ==
    IF currentCond # <<>>
    THEN [node EXCEPT !.Cases = Append(@, SwitchCase(currentCond, currentBody))]
    ELSE IF Len(currentBody) > 0 THEN [node EXCEPT !.Default = currentBody]
    ELSE node

SwitchNested(tokens, start, node, currentCond, currentBody, sub) ==
    IF sub.err # NoErr THEN Failed(sub.err)
    ELSE SwitchLoop(tokens, start, sub.next, node, currentCond,
                    Append(currentBody, sub.node))

\* the switch of parseSwitch's loop; depth is 0 throughout (never incremented)
SwitchStep(tokens, start, i, node, currentCond, currentBody, t) ==
    CASE t.Type \in Openers ->
           SwitchNested(tokens, start, node, currentCond, currentBody,
                        parseNested(tokens, i))
      [] t.Type = "TEndSwitch" ->
           Parsed(flushCase(node, currentCond, currentBody), i + 1)
      [] t.Type = "TCase" ->
           SwitchLoop(tokens, start, i + 1, flushCase(node, currentCond, currentBody),
                      t.Value, <<>>)
      [] t.Type = "TDefault" ->
           SwitchLoop(tokens, start, i + 1, flushCase(node, currentCond, currentBody),
                      <<>>, <<>>)
      [] t.Type \in Leaves ->
           SwitchLoop(tokens, start, i + 1, node, currentCond,
                      Append(currentBody, LeafNode(t)))
      [] OTHER -> Failed(ErrUnexpected("switch", t.Type, -1))

SwitchLoop(tokens, start, i, node, currentCond, currentBody) ==
    IF i >= Len(tokens) THEN Failed(ErrUnclosed("switch", start))
    ELSE SwitchStep(tokens, start, i, node, currentCond, currentBody, tokens[i + 1])

parseSwitch(tokens, start) ==
    SwitchLoop(tokens, start, start + 1,
               SwitchNode(tokens[start + 1].Value, <<>>, <<>>), <<>>, <<>>)

\* the calls parseIf(tokens, i), parseFor(tokens, i), parseSwitch(tokens, i) made
\* on an If, For or Switch token at index i
parseNested(tokens, i) ==
    IF tokens[i + 1].Type = "TIf" THEN parseIf(tokens, i)
    ELSE IF tokens[i + 1].Type = "TFor" THEN parseFor(tokens, i)
    ELSE parseSwitch(tokens, i)

\* what compileTokens returns: (nodes, error); nodes is nil (<<>>) with an error
Compiled(nodes) == [nodes |-> nodes, err |-> NoErr]
CompileFailed(err) == [nodes |-> <<>>, err |-> err]

RECURSIVE CompileLoop(_, _, _), CompileNested(_, _, _)

CompileNested(tokens, nodes, sub) ==
    IF sub.err # NoErr THEN CompileFailed(sub.err)
    ELSE CompileLoop(tokens, sub.next, Append(nodes, sub.node))

CompileStep(tokens, i, nodes, t) ==
    CASE t.Type \in Leaves -> CompileLoop(tokens, i + 1, Append(nodes, LeafNode(t)))
      [] t.Type \in Openers -> CompileNested(tokens, nodes, parseNested(tokens, i))
      [] OTHER -> CompileFailed(ErrUnexpected("top", t.Type, i))

CompileLoop(tokens, i, nodes) ==
    IF i >= Len(tokens) THEN Compiled(nodes)
    ELSE CompileStep(tokens, i, nodes, tokens[i + 1])

compileTokens(tokens) == CompileLoop(tokens, 0, <<>>)

-----------------------------------------------------------------------------
(* Values: Go's interface{} as tagged records [t, v].  Numbers are integers: *)
(* the float forms strconv.ParseFloat also accepts (1.5, 1e3, inf, nan, hex) *)
(* are not among the texts the specifications draw.                          *)

Nil == [t |-> "nil", v |-> 0]
IntV(n) == [t |-> "int", v |-> n]
BoolV(b) == [t |-> "bool", v |-> b]
StrV(s) == [t |-> "string", v |-> s]
MapV(m) == [t |-> "map", v |-> m]

\* the characters in byte order, for Go's string comparison
CharOrder ==
    <<"\t", "\n", "\r", " ", "!", "\"", "#", "$", "%", "&", "'", "(", ")", "*",
      "+", ",", "-", ".", "/", "0", "1", "2", "3", "4", "5", "6", "7", "8", "9",
      ":", ";", "<", "=", ">", "?", "@",
      "A", "B", "C", "D", "E", "F", "G", "H", "I", "J", "K", "L", "M",
      "N", "O", "P", "Q", "R", "S", "T", "U", "V", "W", "X", "Y", "Z",
      "[", "]", "^", "_",
      "a", "b", "c", "d", "e", "f", "g", "h", "i", "j", "k", "l", "m",
      "n", "o", "p", "q", "r", "s", "t", "u", "v", "w", "x", "y", "z",
      "{", "|", "}", "~">>

CharCode(c) == CHOOSE i \in 1..Len(CharOrder) : CharOrder[i] = c

\* a < b for Go strings
RECURSIVE StrLess(_, _)
StrLess(a, b) ==
    IF b = <<>> THEN FALSE
    ELSE IF a = <<>> THEN TRUE
    ELSE IF Head(a) = Head(b) THEN StrLess(Tail(a), Tail(b))
    ELSE CharCode(Head(a)) < CharCode(Head(b))

DigitVal(c) == (CHOOSE i \in 1..10 : Digits[i] = c) - 1

RECURSIVE DigitsVal(_)
DigitsVal(s) ==
    IF s = <<>> THEN 0 ELSE 10 * DigitsVal(Take(s, Len(s) - 1)) + DigitVal(s[Len(s)])

\* strconv.Atoi / strconv.ParseFloat on a decimal integer: [ok, n]
ParseNum(s) ==
    LET body == IF s # <<>> /\ Head(s) \in {"+", "-"} THEN Tail(s) ELSE s
    IN IF body # <<>> /\ \A i \in 1..Len(body) : IsDigit(body[i])
       THEN [ok |-> TRUE,
             n |-> IF Head(s) = "-" THEN 0 - DigitsVal(body) ELSE DigitsVal(body)]
       ELSE [ok |-> FALSE, n |-> 0]

RECURSIVE NatStr(_)
NatStr(n) == IF n < 10 THEN <<Digits[n + 1]>> ELSE NatStr(n \div 10) \o <<Digits[(n % 10) + 1]>>

IntStr(n) == IF n < 0 THEN <<"-">> \o NatStr(0 - n) ELSE NatStr(n)

\* fmt.Sprintf("%v", v); maps are not printed by the texts drawn here
Sprint(v) ==
    CASE v.t = "nil" -> <<"<", "n", "i", "l", ">">>
      [] v.t = "int" -> IntStr(v.v)
      [] v.t = "bool" -> IF v.v THEN <<"t", "r", "u", "e">> ELSE <<"f", "a", "l", "s", "e">>
      [] v.t = "string" -> v.v
      [] OTHER -> <<"m", "a", "p", "[", "]">>

\* strconv.Unquote for a text that starts and ends with the same quote and holds
\* no backslash: "..." without an inner quote or line feed, or '.' of one character
Unquote(p) ==
    LET in == SubSeq(p, 2, Len(p) - 1)
        clean == \A i \in 1..Len(in) : in[i] \notin {"\"", "\n"}
    IN IF Len(p) >= 2 /\ Head(p) = "\"" /\ clean THEN [ok |-> TRUE, s |-> in]
       ELSE IF Len(p) = 3 /\ Head(p) = "'" /\ in[1] \notin {"'", "\n"}
            THEN [ok |-> TRUE, s |-> in]
       ELSE [ok |-> FALSE, s |-> <<>>]

IsQuoted(p) ==
    \/ HasPrefix(p, <<"\"">>) /\ HasSuffix(p, <<"\"">>)
    \/ HasPrefix(p, <<"'">>) /\ HasSuffix(p, <<"'">>)

Found(v) == [v |-> v, ok |-> TRUE]
NotFound == [v |-> Nil, ok |-> FALSE]

TrueWord == <<"t", "r", "u", "e">>
FalseWord == <<"f", "a", "l", "s", "e">>

\* the walk of lookup over the segments of a dotted path
RECURSIVE LookupPath(_, _)
LookupPath(cur, segs) ==
    IF segs = <<>> THEN Found(cur)
    ELSE IF cur.t = "map" /\ Head(segs) \in DOMAIN cur.v
         THEN LookupPath(cur.v[Head(segs)], Tail(segs))
    ELSE NotFound

\* lookup on the trimmed path p, unq and num being strconv.Unquote(p) and
\* strconv.Atoi(p)
LookupLit(data, p, unq, num) ==
    IF p = <<>> THEN NotFound
    ELSE IF IsQuoted(p) /\ unq.ok THEN Found(StrV(unq.s))
    ELSE IF num.ok THEN Found(IntV(num.n))
    ELSE IF p = TrueWord THEN Found(BoolV(TRUE))
    ELSE IF p = FalseWord THEN Found(BoolV(FALSE))
    ELSE LookupPath(MapV(data), Split(p, <<".">>))

LookupTrimmed(data, p) == LookupLit(data, p, Unquote(p), ParseNum(p))

lookup(data, path) == LookupTrimmed(data, TrimSpace(path))

\* literalFromString on the trimmed text s (a backslash escape is not among the
\* texts drawn here; a one-character quote makes s[1 : len(s)-1] an invalid slice
\* and is not drawn either)
LiteralLit(s, unq, num) ==
    IF IsQuoted(s)
    THEN (IF unq.ok THEN StrV(unq.s) ELSE StrV(SubSeq(s, 2, Len(s) - 1)))
    ELSE IF s = TrueWord THEN BoolV(TRUE)
    ELSE IF s = FalseWord THEN BoolV(FALSE)
    ELSE IF num.ok THEN IntV(num.n)
    ELSE StrV(s)

LiteralTrimmed(s) == LiteralLit(s, Unquote(s), ParseNum(s))

literalFromString(str) == LiteralTrimmed(TrimSpace(str))

\* toFloat's default case: whatever prints as a number is one
PrintedNum(printed) ==
    IF printed # <<>> THEN ParseNum(printed) ELSE [ok |-> FALSE, n |-> 0]

toFloat(v) == IF v.t = "int" THEN [ok |-> TRUE, n |-> v.v] ELSE PrintedNum(Sprint(v))

CompOps == {"==", "!=", ">", "<", ">=", "<="}

\* what a condition evaluates to: (bool, error)
Truth(b) == [res |-> b, err |-> "none"]
EvalErr(e) == [res |-> FALSE, err |-> e]

\* compareValues with af, bf = toFloat(a), toFloat(b) and as, bs the printed forms
Compare(a, b, op, af, bf, as, bs) ==
    IF af.ok /\ bf.ok /\ op \in CompOps
    THEN CASE op = "==" -> Truth(af.n = bf.n)
           [] op = "!=" -> Truth(af.n # bf.n)
           [] op = ">" -> Truth(af.n > bf.n)
           [] op = "<" -> Truth(af.n < bf.n)
           [] op = ">=" -> Truth(af.n >= bf.n)
           [] op = "<=" -> Truth(af.n <= bf.n)
    ELSE IF a.t = "bool" /\ b.t = "bool" /\ op \in {"==", "!="}
    THEN (IF op = "==" THEN Truth(a.v = b.v) ELSE Truth(a.v # b.v))
    ELSE CASE op = "==" -> Truth(as = bs)
           [] op = "!=" -> Truth(as # bs)
           [] op = ">" -> Truth(StrLess(bs, as))
           [] op = "<" -> Truth(StrLess(as, bs))
           [] op = ">=" -> Truth(~StrLess(as, bs))
           [] op = "<=" -> Truth(~StrLess(bs, as))
           [] OTHER -> EvalErr("unsupported comparison")

compareValues(a, b, op) == Compare(a, b, op, toFloat(a), toFloat(b), Sprint(a), Sprint(b))

condTruthy(v) ==
    CASE v.t = "nil" -> FALSE
      [] v.t = "bool" -> v.v
      [] v.t = "string" -> v.v # <<>>
      [] v.t = "int" -> v.v # 0
      [] v.t \in {"map", "list"} -> DOMAIN v.v # {}
      [] OTHER -> TRUE

-----------------------------------------------------------------------------
(* Condition evaluator *)

\* strings.Fields: the maximal runs of non-white-space characters
WordLen(t) ==
    LET sp == {i \in 1..Len(t) : t[i] \in WhiteSpace}
    IN IF sp = {} THEN Len(t) ELSE Min(sp) - 1

RECURSIVE Fields(_), FieldsFrom(_)
FieldsFrom(t) ==
    IF t = <<>> THEN <<>> ELSE <<Take(t, WordLen(t))>> \o Fields(Drop(t, WordLen(t)))

Fields(s) == FieldsFrom(Drop(s, LeadSpace(s)))

AndWord == <<"a", "n", "d">>
OrWord == <<"o", "r">>

\* the loop of splitLogical over the words, with parts and cur as in the source
RECURSIVE SplitLoop(_, _, _)
SplitLoop(words, parts, cur) ==
    IF words = <<>>
    THEN (IF cur # <<>> THEN Append(parts, TrimSpace(cur)) ELSE parts)
    ELSE IF Head(words) = AndWord \/ Head(words) = OrWord
         THEN SplitLoop(Tail(words), parts \o <<TrimSpace(cur), Head(words)>>, <<>>)
    ELSE SplitLoop(Tail(words), parts,
                   IF cur = <<>> THEN Head(words) ELSE cur \o <<" ">> \o Head(words))

splitLogical(expr) == SplitLoop(Fields(TrimSpace(expr)), <<>>, <<>>)

\* the operator of compOpRe = \s*(==|!=|>=|<=|>|<)\s* that starts at position i
\* of s, "" if none does
OpOf(two, one) ==
    IF two = <<"=", "=">> THEN "=="
    ELSE IF two = <<"!", "=">> THEN "!="
    ELSE IF two = <<">", "=">> THEN ">="
    ELSE IF two = <<"<", "=">> THEN "<="
    ELSE IF one = ">" THEN ">"
    ELSE IF one = "<" THEN "<"
    ELSE ""

OpAt(s, i) == OpOf(IF i < Len(s) THEN SubSeq(s, i, i + 1) ELSE <<>>, s[i])

OpLen(op) == IF op \in {">", "<"} THEN 1 ELSE 2

NoOp == [ok |-> FALSE, op |-> "", left |-> <<>>, right |-> <<>>]

\* the match of compOpRe with operator op at position i: the white space around
\* the operator belongs to the match, the two sides are compOpRe.Split(s, 2)
OpMatch(s, i, op) ==
    [ok |-> TRUE, op |-> op,
     left |-> Take(s, i - 1 - TrailSpace(Take(s, i - 1))),
     right |-> Drop(s, i - 1 + OpLen(op) + LeadSpace(Drop(s, i - 1 + OpLen(op))))]

OpFirst(s, i) == OpMatch(s, i, OpAt(s, i))

\* the leftmost match of compOpRe in s
FindOpIn(s, at) == IF at = {} THEN NoOp ELSE OpFirst(s, Min(at))

FindOp(s) == FindOpIn(s, {i \in 1..Len(s) : OpAt(s, i) # ""})

\* lv, lok := lookup(data, text); if !lok { lv = literalFromString(text) }
OperandOf(found, text) == IF found.ok THEN found.v ELSE literalFromString(text)

Operand(data, text) == OperandOf(lookup(data, text), text)

\* evalSimpleCond with m the match of compOpRe in cond
SimpleCond(cond, data, m) ==
    IF m.ok
    THEN compareValues(Operand(data, TrimSpace(m.left)),
                       Operand(data, TrimSpace(m.right)), m.op)
    ELSE Truth(condTruthy(Operand(data, cond)))

evalSimpleCond(cond, data) == SimpleCond(cond, data, FindOp(cond))

PanicIndex == "panic: index out of range"

RECURSIVE CondLoop(_, _, _, _), CondStep(_, _, _, _, _, _)

\* a loop body that takes "and" for "or" and "or" for "and"
CondStepSwapped(tokens, i, res, data, op, next) ==
    IF next.err # "none" THEN EvalErr(next.err)
    ELSE IF op = OrWord THEN CondLoop(tokens, i + 2, res /\ next.res, data)
    ELSE IF op = AndWord THEN CondLoop(tokens, i + 2, res \/ next.res, data)
    ELSE EvalErr("unknown logical operator")

\* the body of evalCondition's loop: op is tokens[i], next the value of tokens[i+1]
CondStep(tokens, i, res, data, op, next) ==
    IF next.err # "none" THEN EvalErr(next.err)
    ELSE IF op = AndWord THEN CondLoop(tokens, i + 2, res /\ next.res, data)
    ELSE IF op = OrWord THEN CondLoop(tokens, i + 2, res \/ next.res, data)
    ELSE EvalErr("unknown logical operator")

\* the loop of evalCondition at index i (0-based) with the result so far; reading
\* tokens[i+1] past the end of the slice is a run-time panic
CondLoop(tokens, i, res, data) ==
    IF i >= Len(tokens) THEN Truth(res)
    ELSE IF i + 1 >= Len(tokens) THEN EvalErr(PanicIndex)
    ELSE CondStep(tokens, i, res, data, TrimSpace(tokens[i + 1]),
                  evalSimpleCond(TrimSpace(tokens[i + 2]), data))

CondFirst(tokens, data, first) ==
    IF first.err # "none" THEN EvalErr(first.err)
    ELSE CondLoop(tokens, 1, first.res, data)

CondTokens(tokens, data) ==
    IF Len(tokens) = 0 THEN Truth(FALSE)
    ELSE CondFirst(tokens, data, evalSimpleCond(TrimSpace(tokens[1]), data))

evalCondition(expr, data) == CondTokens(splitLogical(expr), data)

SwitchVar == <<"_", "_", "s", "w", "i", "t", "c", "h", "_", "_">>

\* tmp := shallowCopyMap(data); tmp["__switch__"] = value
WithSwitch(data, value) ==
    [k \in DOMAIN data \cup {SwitchVar} |-> IF k = SwitchVar THEN value ELSE data[k]]

\* evalConditionWithValue: hasOp is compOpRe.MatchString(condExpr), eq the value
\* compared with the literal, full the condition evaluated with __switch__ bound
CaseMatch(value, lit, hasOp, eq, full) ==
    IF hasOp THEN full
    ELSE IF eq.err = "none" /\ eq.res THEN Truth(TRUE)
    ELSE IF Sprint(value) = Sprint(lit) THEN Truth(TRUE)
    ELSE IF full.err = PanicIndex THEN full
    ELSE IF full.err = "none" THEN Truth(full.res)
    ELSE Truth(FALSE)

CaseLiteral(condExpr, value, data, lit) ==
    CaseMatch(value, lit, FindOp(condExpr).ok, compareValues(value, lit, "=="),
              evalCondition(condExpr, WithSwitch(data, value)))

evalConditionWithValue(condExpr, value, data) ==
    CaseLiteral(condExpr, value, data, literalFromString(TrimSpace(condExpr)))

-----------------------------------------------------------------------------
(* Node evaluator.  The Eval methods of the node types are not part of the   *)
(* source files at hand; they follow the renderer's description (Text emits  *)
(* its literal, Variable its value or default, If the first true branch,     *)
(* Switch the first matching case or the default, For one body per item).    *)

ListV(items) == [t |-> "list", v |-> items]

lookupVal(data, path) == lookup(data, path).v

Bind(data, k, v) == [x \in DOMAIN data \cup {k} |-> IF x = k THEN v ELSE data[x]]

RECURSIVE EvalNodes(_, _), EvalNode(_, _), EvalBranches(_, _, _), EvalBranch(_, _, _, _),
          EvalCases(_, _, _, _), EvalCase(_, _, _, _, _), EvalItems(_, _, _, _)

EvalNodes(nodes, data) ==
    IF nodes = <<>> THEN <<>>
    ELSE EvalNode(Head(nodes), data) \o EvalNodes(Tail(nodes), data)

\* a condition that fails to evaluate counts as false
EvalBranch(branches, else, data, c) ==
    IF c.err = "none" /\ c.res THEN EvalNodes(Head(branches).Body, data)
    ELSE EvalBranches(Tail(branches), else, data)

EvalBranches(branches, else, data) ==
    IF branches = <<>> THEN EvalNodes(else, data)
    ELSE EvalBranch(branches, else, data, evalCondition(Head(branches).Expr, data))

EvalCase(cases, default, subject, data, c) ==
    IF c.err = "none" /\ c.res THEN EvalNodes(Head(cases).Body, data)
    ELSE EvalCases(Tail(cases), default, subject, data)

EvalCases(cases, default, subject, data) ==
    IF cases = <<>> THEN EvalNodes(default, data)
    ELSE EvalCase(cases, default, subject, data,
                  evalConditionWithValue(Head(cases).Cond, subject, data))

ItemData(node, item, i, data) ==
    IF node.IndexVar = <<>> THEN Bind(data, node.ItemVar, item)
    ELSE Bind(Bind(data, node.ItemVar, item), node.IndexVar, IntV(i - 1))

EvalItems(node, items, i, data) ==
    IF i > Len(items) THEN <<>>
    ELSE EvalNodes(node.Body, ItemData(node, items[i], i, data))
         \o EvalItems(node, items, i + 1, data)

EvalVar(n, found) == IF found.ok THEN Sprint(found.v) ELSE n.Default

EvalFor(n, data, l) == IF l.t = "list" THEN EvalItems(n, l.v, 1, data) ELSE <<>>

EvalNode(n, data) ==
    CASE n.kind = "Text" -> n.Text
      [] n.kind = "Var" -> EvalVar(n, lookup(data, n.Name))
      [] n.kind = "If" -> EvalBranches(n.Branches, n.Else, data)
      [] n.kind = "Switch" -> EvalCases(n.Cases, n.Default, lookupVal(data, n.Expr), data)
      [] n.kind = "For" -> EvalFor(n, data, lookupVal(data, n.ListExpr))

-----------------------------------------------------------------------------
(* Template cache: Render and getOrCompile, one step per access to the file, *)
(* to cacheMutex or to tplCache.                                             *)

NumCallers == 2     \* concurrent callers of Render
MaxTime == 2        \* modification timestamps are 1..MaxTime
MaxCalls == 2       \* Render calls started in one behaviour
MaxChanges == 1     \* writes of the file in one behaviour

Callers == 1..NumCallers
Times == 1..MaxTime
NoProc == 0

\* the path every caller renders (the key of tplCache)
Path == <<"/", "t">>

\* the contents the file may hold: two templates that compile, one that does not
TplHello == <<"a">>
TplVar == <<"<", "{", "a", "}", ">", "b">>
TplUnclosed == <<"<", "{", "i", "f", " ", "a", "}", ">">>
Templates == {TplHello, TplVar, TplUnclosed}

\* the data every caller renders with
RenderData == [k \in {<<"a">>} |-> StrV(<<"A">>)]

Template(path, nodes, mod) == [Filepath |-> path, Nodes |-> nodes, ModTime |-> mod]
NoTpl == [Filepath |-> <<>>, Nodes |-> <<>>, ModTime |-> 0]

\* the (value, error) pairs of getOrCompile and Render
ErrStat == [kind |-> "stat", what |-> "", at |-> -1, type |-> ""]
ErrRead == [kind |-> "read", what |-> "", at |-> -1, type |-> ""]

IdleCall ==
    [pc |-> "idle", mod |-> 0, exists |-> FALSE, tpl |-> NoTpl, read |-> FALSE,
     content |-> <<>>, newTpl |-> NoTpl, res |-> NoTpl, err |-> NoErr, out |-> <<>>]

InitFile == [exists |-> TRUE, content |-> TplHello, mod |-> 1]

\* history kept beside the program's state: the timestamps earlier versions of the
\* file had, the caller that stored last and what it had obtained from stat and
\* read, the numbers of calls and writes so far, and per call in flight: whether
\* the file changed during it, whether it stored, whether another call stored
\* during it, and the cache as the call found it
InitHist ==
    [seen |-> {}, lastWriter |-> NoProc, origin |-> [mod |-> 0, content |-> <<>>],
     calls |-> 0, changes |-> 0,
     dirty |-> [p \in Callers |-> FALSE],
     stored |-> [p \in Callers |-> FALSE],
     otherStored |-> [p \in Callers |-> FALSE],
     snap |-> [p \in Callers |-> <<>>]]

CacheInit ==
    /\ file = InitFile
    /\ tplCache = <<>>
    /\ readers = 0
    /\ writer = NoProc
    /\ call = [p \in Callers |-> IdleCall]
    /\ hist = InitHist

\* what the pipeline stages leave in output
NoOutput ==
    [tokens |-> <<>>, nodes |-> <<>>, err |-> NoErr, text |-> <<>>, res |-> Truth(FALSE)]

PureIdle == input = <<>> /\ stage = "none" /\ output = NoOutput

Init == CacheInit /\ PureIdle

\* p has called Render (its call may have returned)
InFlight(p) == call[p].pc # "idle"

\* Render's loop over tpl.Nodes
RenderOut(tpl) == EvalNodes(tpl.Nodes, RenderData)

\* getOrCompile returns (tpl, nil) and Render the evaluated nodes
Returned(c, tpl) == [c EXCEPT !.pc = "done", !.res = tpl, !.out = RenderOut(tpl)]

\* getOrCompile returns (nil, err) and Render ("", err)
ReturnedErr(c, err) == [c EXCEPT !.pc = "done", !.err = err]

\* a caller that is idle or has its result calls Render:
\* stat, err := os.Stat(path); mod := stat.ModTime()
Stat(p) ==
    /\ call[p].pc \in {"idle", "done"}
    /\ hist.calls < MaxCalls
    /\ call' = [call EXCEPT ![p] =
                   IF file.exists THEN [IdleCall EXCEPT !.pc = "rlock", !.mod = file.mod]
                   ELSE ReturnedErr(IdleCall, ErrStat)]
    /\ hist' = [hist EXCEPT !.calls = @ + 1, !.dirty[p] = FALSE, !.stored[p] = FALSE,
                            !.otherStored[p] = FALSE, !.snap[p] = tplCache]
    /\ UNCHANGED <<file, tplCache, readers, writer, pureVars>>

\* cacheMutex.RLock()
RLock(p) ==
    /\ call[p].pc = "rlock"
    /\ writer = NoProc
    /\ readers' = readers + 1
    /\ call' = [call EXCEPT ![p].pc = "lookup"]
    /\ UNCHANGED <<file, tplCache, writer, hist, pureVars>>

\* tpl, exists := tplCache[path]
Lookup(p) ==
    /\ call[p].pc = "lookup"
    /\ call' = [call EXCEPT ![p].pc = "runlock",
                            ![p].exists = Path \in DOMAIN tplCache,
                            ![p].tpl = IF Path \in DOMAIN tplCache THEN tplCache[Path]
                                       ELSE NoTpl]
    /\ UNCHANGED <<file, tplCache, readers, writer, hist, pureVars>>

\* a lookup that never reuses the cached Template
CacheMiss(exists, tpl, mod) == FALSE

\* a lookup that reuses whatever Template the cache holds
CacheHitAnyTime(exists, tpl, mod) == exists

\* exists && tpl.ModTime.Equal(mod)
CacheHit(exists, tpl, mod) == exists /\ tpl.ModTime = mod

\* cacheMutex.RUnlock(), then the decision between the cached Template and a compile
RUnlock(p) ==
    /\ call[p].pc = "runlock"
    /\ readers' = readers - 1
    /\ call' = [call EXCEPT ![p] =
                   IF CacheHit(call[p].exists, call[p].tpl, call[p].mod)
                   THEN Returned(call[p], call[p].tpl)
                   ELSE [call[p] EXCEPT !.pc = "read"]]
    /\ UNCHANGED <<file, tplCache, writer, hist, pureVars>>

\* a Template that does not keep the timestamp of its call
NewTemplateUnstamped(path, nodes, mod) == Template(path, nodes, 0)

\* newTpl := &Template{Filepath: path, Nodes: nodes, ModTime: mod}
NewTemplate(path, nodes, mod) == Template(path, nodes, mod)

\* a compile step that goes on to the store whatever compileTokens returned
AfterCompileKeepGoing(c, compiled) ==
    [c EXCEPT !.pc = "lock", !.newTpl = Template(Path, compiled.nodes, c.mod)]

\* nodes, err := compileTokens(tokens); if err != nil { return nil, err }; then
\* the new Template, c being the call that has read the file
AfterCompile(c, compiled) ==
    IF compiled.err # NoErr THEN ReturnedErr(c, compiled.err)
    ELSE [c EXCEPT !.pc = "lock", !.newTpl = NewTemplate(Path, compiled.nodes, c.mod)]

\* b, err := os.ReadFile(path), then tokenize and compileTokens on what was read
ReadFile(p) ==
    /\ call[p].pc = "read"
    /\ call' = [call EXCEPT ![p] =
                   IF ~file.exists THEN ReturnedErr(call[p], ErrRead)
                   ELSE AfterCompile([call[p] EXCEPT !.read = TRUE,
                                                     !.content = file.content],
                                     compileTokens(tokenize(file.content)))]
    /\ UNCHANGED <<file, tplCache, readers, writer, hist, pureVars>>

\* cacheMutex.Lock()
Lock(p) ==
    /\ call[p].pc = "lock"
    /\ readers = 0
    /\ writer = NoProc
    /\ writer' = p
    /\ call' = [call EXCEPT ![p].pc = "store"]
    /\ UNCHANGED <<file, tplCache, readers, hist, pureVars>>

\* tplCache[path] = newTpl
StoreInto(cache, path, tpl) ==
    [k \in DOMAIN cache \cup {path} |-> IF k = path THEN tpl ELSE cache[k]]

Store(p) ==
    /\ call[p].pc = "store"
    /\ tplCache' = StoreInto(tplCache, Path, call[p].newTpl)
    /\ call' = [call EXCEPT ![p].pc = "unlock"]
    /\ hist' = [hist EXCEPT
                   !.lastWriter = p,
                   !.origin = [mod |-> call[p].mod, content |-> call[p].content],
                   !.stored[p] = TRUE,
                   !.otherStored = [q \in Callers |->
                                       IF q # p /\ InFlight(q) THEN TRUE ELSE @[q]]]
    /\ UNCHANGED <<file, readers, writer, pureVars>>

\* cacheMutex.Unlock(); return newTpl, nil
Unlock(p) ==
    /\ call[p].pc = "unlock"
    /\ writer' = NoProc
    /\ call' = [call EXCEPT ![p] = Returned(call[p], call[p].newTpl)]
    /\ UNCHANGED <<file, tplCache, readers, hist, pureVars>>

\* the file system: every change of the file is seen by the calls in flight
Touched(h) ==
    [h EXCEPT !.changes = @ + 1,
              !.dirty = [q \in Callers |-> IF InFlight(q) THEN TRUE ELSE @[q]]]

\* the file is written and gets another modification time
Modify(c, t) ==
    /\ file.exists
    /\ hist.changes < MaxChanges
    /\ t # file.mod
    /\ file' = [exists |-> TRUE, content |-> c, mod |-> t]
    /\ hist' = [Touched(hist) EXCEPT !.seen = @ \cup {file.mod}]
    /\ UNCHANGED <<tplCache, readers, writer, call, pureVars>>

\* the file's bytes change and its modification time stays (a write within the
\* clock's granularity, or the time set back by the writer)
Rewrite(c) ==
    /\ file.exists
    /\ hist.changes < MaxChanges
    /\ c # file.content
    /\ file' = [file EXCEPT !.content = c]
    /\ hist' = Touched(hist)
    /\ UNCHANGED <<tplCache, readers, writer, call, pureVars>>

\* the file is deleted; only writing it again (Restore) counts as a write
Remove ==
    /\ file.exists
    /\ file' = [file EXCEPT !.exists = FALSE]
    /\ hist' = [hist EXCEPT !.dirty = [q \in Callers |-> IF InFlight(q) THEN TRUE ELSE @[q]]]
    /\ UNCHANGED <<tplCache, readers, writer, call, pureVars>>

Restore(c, t) ==
    /\ ~file.exists
    /\ hist.changes < MaxChanges
    /\ t # file.mod
    /\ file' = [exists |-> TRUE, content |-> c, mod |-> t]
    /\ hist' = [Touched(hist) EXCEPT !.seen = @ \cup {file.mod}]
    /\ UNCHANGED <<tplCache, readers, writer, call, pureVars>>

CallerStep ==
    \E p \in Callers :
        \/ Stat(p)
        \/ RLock(p)
        \/ Lookup(p)
        \/ RUnlock(p)
        \/ ReadFile(p)
        \/ Lock(p)
        \/ Store(p)
        \/ Unlock(p)

StampedFileStep ==
    \/ \E c \in Templates, t \in Times : Modify(c, t)
    \/ Remove
    \/ \E c \in Templates, t \in Times : Restore(c, t)

Next ==
    \/ CallerStep
    \/ StampedFileStep
    \/ \E c \in Templates : Rewrite(c)

Spec == Init /\ [][Next]_vars

\* the file system of a harness that changes the timestamp with every write
NextStamped == CallerStep \/ StampedFileStep

SpecStamped == Init /\ [][NextStamped]_vars

\* what tokenize and compileTokens make of each content the file may hold
CompiledOf == [c \in Templates |-> compileTokens(tokenize(c))]

\* the Template a call builds from timestamp mod and content c
TemplateOf(c, mod) == Template(Path, CompiledOf[c].nodes, mod)

Done(p) == call[p].pc = "done"

\* the lookup of p's call found a Template with the timestamp the call had from stat
FoundCurrent(p) == call[p].exists /\ call[p].tpl.ModTime = call[p].mod

-----------------------------------------------------------------------------
(* Claims about the template cache *)

\* C2: a call whose lookup finds a Template with the timestamp it got from stat
\* returns that very Template, never enters the compile path (no
\* read of the file) and does not write the cache, whatever the file holds now.
C2_CacheHitReusesTemplate ==
    \A p \in Callers :
        FoundCurrent(p) =>
            /\ call[p].pc \in {"runlock", "done"}
            /\ ~call[p].read
            /\ ~hist.stored[p]
            /\ Done(p) => call[p].err = NoErr /\ call[p].res = call[p].tpl

\* C2 witness: the file's bytes were changed under the same timestamp, and a call
\* made after that returned the cached Template of the old bytes.
C2_StaleReuseReached ==
    \E p \in Callers :
        /\ Done(p) /\ FoundCurrent(p) /\ ~hist.dirty[p]
        /\ file.exists /\ file.mod = call[p].mod
        /\ CompiledOf[file.content].err = NoErr
        /\ call[p].res.Nodes # CompiledOf[file.content].nodes

\* the file has a timestamp no earlier version of it had
FreshStamp == file.exists /\ file.mod \notin hist.seen

Failing(p) ==
    \/ call[p].err # NoErr
    \/ call[p].read /\ CompiledOf[call[p].content].err # NoErr

\* C4: a call whose stat, read or compile fails returns the empty string and the
\* error, never reaches the store, and the cache is as the call found it unless
\* another call stored meanwhile.
C4_FailureLeavesCache ==
    \A p \in Callers :
        Failing(p) =>
            /\ Done(p)
            /\ call[p].err # NoErr
            /\ call[p].read => call[p].err = CompiledOf[call[p].content].err
            /\ call[p].out = <<>>
            /\ call[p].res = NoTpl
            /\ ~hist.stored[p]
            /\ ~hist.otherStored[p] => tplCache = hist.snap[p]

\* C4 witness: a parse error was returned while the cache held a Template compiled
\* earlier, which is still there.
C4_ParseErrorKeepsEntry ==
    \E p \in Callers :
        /\ Done(p) /\ call[p].err.kind = "unclosed"
        /\ ~hist.otherStored[p]
        /\ Path \in DOMAIN tplCache
        /\ tplCache[Path].Nodes # <<>>

HasReturned(p) == call[p].pc \in {"idle", "done"}

\* C5: every call that compiles returns the Template made of the timestamp it got
\* from stat and the nodes of the content it read; a call that does not compile
\* returns the Template it looked up; the cache entry is always the Template of
\* one call's own timestamp and content; once all calls have returned, the entry
\* is what the last writer returned; the store excludes readers and other writers.
C5_ConcurrentCallsConsistent ==
    /\ \A p \in Callers :
           (Done(p) /\ call[p].err = NoErr) =>
               IF call[p].read
               THEN call[p].res = TemplateOf(call[p].content, call[p].mod)
               ELSE call[p].exists /\ call[p].res = call[p].tpl
    /\ Path \in DOMAIN tplCache =>
           tplCache[Path] = TemplateOf(hist.origin.content, hist.origin.mod)
    /\ \A p \in Callers :
           (/\ \A q \in Callers : HasReturned(q)
            /\ hist.lastWriter = p /\ hist.stored[p]) =>
               tplCache[Path] = call[p].res
    /\ writer # NoProc => readers = 0
    /\ \A p \in Callers : call[p].pc \in {"store", "unlock"} <=> writer = p
    /\ readers = Cardinality({p \in Callers : call[p].pc \in {"lookup", "runlock"}})

\* C5 witness: two calls raced on a missing or stale entry, both compiled, each
\* returned its own Template, and the entry is the one of the caller that stored
\* last.
C5_RaceReached ==
    \E p, q \in Callers :
        /\ p # q /\ Done(p) /\ Done(q)
        /\ hist.stored[p] /\ hist.stored[q] /\ hist.otherStored[q]
        /\ call[p].res # call[q].res
        /\ hist.lastWriter = p
        /\ tplCache[Path] = call[p].res

-----------------------------------------------------------------------------
(* The compile pipeline on its own: tokenize, compileTokens and the Eval of  *)
(* the nodes applied to template sources, and compileTokens applied to token *)
(* sequences.  The cache is not involved and stays as constructed.           *)

MaxPieces == 3      \* pieces a template source is made of
MaxTokens == 3      \* tokens of a token sequence
MaxBody == 4        \* tokens between <{switch}> and <{/switch}>
MaxConds == 3       \* simple conditions of a chain

Tag(body) == OpenMarker \o body \o CloseMarker

Frobnicate == <<"f", "r", "o", "b", "n", "i", "c", "a", "t", "e">>

\* what template sources are made of
Pieces ==
    {OpenMarker, CloseMarker, <<"a">>, <<" ", "-">>, <<"i", "f", " ", "a">>,
     <<"/", "i", "f">>, Frobnicate}

\* the sequences of at most n elements of S
RECURSIVE SeqsUpTo(_, _)
SeqsUpTo(S, n) ==
    IF n = 0 THEN {<<>>}
    ELSE SeqsUpTo(S, n - 1) \cup {Append(x, e) : x \in SeqsUpTo(S, n - 1), e \in S}

Sources == {Concat(ps) : ps \in SeqsUpTo(Pieces, MaxPieces)}

InitTok == CacheInit /\ input \in Sources /\ stage = "source" /\ output = NoOutput

\* tokens := tokenize(string(b))
TokenizeSource ==
    /\ stage = "source"
    /\ stage' = "tokenized"
    /\ output' = [output EXCEPT !.tokens = tokenize(input)]
    /\ UNCHANGED <<input, cacheVars>>

CompileOutput(out, c) == [out EXCEPT !.nodes = c.nodes, !.err = c.err]

\* nodes, err := compileTokens(tokens)
CompileTokenized ==
    /\ stage = "tokenized"
    /\ output' = CompileOutput(output, compileTokens(output.tokens))
    /\ stage' = IF output'.err = NoErr THEN "parsed" ELSE "failed"
    /\ UNCHANGED <<input, cacheVars>>

\* Render's loop over the nodes
RenderNodes ==
    /\ stage = "parsed"
    /\ stage' = "rendered"
    /\ output' = [output EXCEPT !.text = EvalNodes(output.nodes, RenderData)]
    /\ UNCHANGED <<input, cacheVars>>

NextTok == TokenizeSource \/ CompileTokenized \/ RenderNodes

SpecTok == InitTok /\ [][NextTok]_vars

HasOpenMarker(s) == \E i \in 1..(Len(s) - 1) : SubSeq(s, i, i + 1) = OpenMarker
HasCloseMarker(s) == \E i \in 1..(Len(s) - 1) : SubSeq(s, i, i + 1) = CloseMarker

TokenValues(tokens) == Concat([i \in 1..Len(tokens) |-> tokens[i].Value])

\* C1: a source without any open marker is tokenized into Text tokens only, whose
\* values concatenate to the source; it compiles, and renders as the source itself.
C1_NoTagsVerbatim ==
    (stage # "source" /\ ~HasOpenMarker(input)) =>
        /\ \A i \in 1..Len(output.tokens) : output.tokens[i].Type = "TText"
        /\ TokenValues(output.tokens) = input
        /\ stage # "failed"
        /\ stage = "rendered" => output.text = input

\* the source is one tag: an open marker, a body without markers, a close marker
IsSingleTag(src) ==
    /\ Len(src) >= 4
    /\ Take(src, 2) = OpenMarker
    /\ Drop(src, Len(src) - 2) = CloseMarker
    /\ ~HasOpenMarker(Drop(src, 2))
    /\ ~HasCloseMarker(Take(src, Len(src) - 2))

TagBody(src) == SubSeq(src, 3, Len(src) - 2)

IsControlTag(tag) ==
    \/ ifPattern(tag).ok \/ elseifPattern(tag).ok \/ elsePattern(tag)
    \/ endifPattern(tag) \/ forPattern(tag).ok \/ endforPattern(tag)
    \/ switchPattern(tag).ok \/ casePattern(tag).ok \/ defaultPattern(tag)
    \/ endswitchPattern(tag)

\* the tag names a value of the render context
IsKnownVariable(tag) == varPattern(tag).ok /\ lookup(RenderData, varPattern(tag).m1).ok

UnknownTag(body) == ~IsControlTag(TrimSpace(body)) /\ ~IsKnownVariable(TrimSpace(body))

\* C6: a tag that is no control tag and no variable of the context (such as
\* <{frobnicate}>) becomes one Text token whose value is the whole tag as written,
\* delimiters included, and is rendered as written.
C6_UnknownTagVerbatim ==
    (stage # "source" /\ IsSingleTag(input) /\ UnknownTag(TagBody(input))) =>
        /\ Len(output.tokens) = 1
        /\ output.tokens[1].Type = "TText"
        /\ output.tokens[1].Value = input
        /\ stage # "failed"
        /\ stage = "rendered" => output.text = input

-----------------------------------------------------------------------------
(* compileTokens on token sequences *)

\* the token tokenize makes of the tag <{body}>
TokenOf(body) == tokenize(Tag(body))[1]

TokText == TextToken(<<"t">>)
TokOther == TextToken(<<"u">>)
TokVar == TokenOf(<<"a">>)
TokIf == TokenOf(<<"i", "f", " ", "a">>)
TokElseIf == TokenOf(<<"e", "l", "s", "e", "i", "f", " ", "a">>)
TokElse == TokenOf(<<"e", "l", "s", "e">>)
TokEndIf == TokenOf(<<"/", "i", "f">>)
TokFor == TokenOf(<<"f", "o", "r", " ", "x", " ", "i", "n", " ", "a">>)
TokEndFor == TokenOf(<<"/", "f", "o", "r">>)
TokSwitch == TokenOf(<<"s", "w", "i", "t", "c", "h", " ", "a">>)
TokCase == TokenOf(<<"c", "a", "s", "e", " ", "1">>)
TokDefault == TokenOf(<<"d", "e", "f", "a", "u", "l", "t">>)
TokEndSwitch == TokenOf(<<"/", "s", "w", "i", "t", "c", "h">>)

TokenAlphabet ==
    {TokText, TokVar, TokIf, TokElseIf, TokElse, TokEndIf, TokFor, TokEndFor,
     TokSwitch, TokCase, TokDefault, TokEndSwitch}

InitParse ==
    /\ CacheInit
    /\ input \in SeqsUpTo(TokenAlphabet, MaxTokens)
    /\ stage = "tokens"
    /\ output = NoOutput

\* nodes, err := compileTokens(tokens)
CompileInput ==
    /\ stage = "tokens"
    /\ stage' = "compiled"
    /\ output' = CompileOutput(output, compileTokens(input))
    /\ UNCHANGED <<input, cacheVars>>

NextParse == CompileInput

SpecParse == InitParse /\ [][NextParse]_vars

EndOf(type) ==
    CASE type = "TIf" -> "TEndIf"
      [] type = "TFor" -> "TEndFor"
      [] type = "TSwitch" -> "TEndSwitch"

ConstructOf(type) ==
    CASE type = "TIf" -> "if"
      [] type = "TFor" -> "for"
      [] type = "TSwitch" -> "switch"

\* the tokens of the given type among positions a..b (1-based)
CountType(tokens, type, a, b) ==
    Cardinality({j \in a..b : tokens[j].Type = type})

\* the opener at position k (1-based) has a matching end tag: an end tag of its
\* kind after it, with the openers and end tags of that kind between the two
\* matching each other like brackets
HasMatch(tokens, k) ==
    \E j \in (k + 1)..Len(tokens) :
        /\ tokens[j].Type = EndOf(tokens[k].Type)
        /\ CountType(tokens, tokens[k].Type, k + 1, j - 1)
               = CountType(tokens, EndOf(tokens[k].Type), k + 1, j - 1)
        /\ \A m \in (k + 1)..(j - 1) :
               CountType(tokens, tokens[k].Type, k + 1, m)
                   >= CountType(tokens, EndOf(tokens[k].Type), k + 1, m)

\* the indices (Go's, 0-based) of the If, For and Switch tokens without matching
\* end tag
UnclosedAt(tokens) ==
    {k - 1 : k \in {j \in 1..Len(tokens) :
                       tokens[j].Type \in Openers /\ ~HasMatch(tokens, j)}}

OpenersAt(tokens) == {k - 1 : k \in {j \in 1..Len(tokens) : tokens[j].Type \in Openers}}

NamesUnclosed(tokens, err) ==
    /\ err.kind = "unclosed"
    /\ err.at \in UnclosedAt(tokens)
    /\ err.what = ConstructOf(tokens[err.at + 1].Type)

\* C7 as stated: whenever some If, For or Switch token has no matching end tag,
\* compileTokens returns no nodes and an "unclosed" error naming such a construct
\* and the index of its start token.
C7_UnclosedAlwaysNamed ==
    (stage = "compiled" /\ UnclosedAt(input) # {}) =>
        /\ output.nodes = <<>>
        /\ NamesUnclosed(input, output.err)

\* C7 amended: whenever some If, For or Switch token has no matching end tag,
\* compileTokens returns an error and no nodes; an "unclosed" error names a
\* construct without matching end tag and its start index; and when the tokens are
\* only openers, text and variables the error is "unclosed" for the opener opened
\* last.
C7_UnclosedIsError ==
    (stage = "compiled" /\ UnclosedAt(input) # {}) =>
        /\ output.nodes = <<>>
        /\ output.err.kind \in {"unclosed", "unexpected"}
        /\ output.err.kind = "unclosed" => NamesUnclosed(input, output.err)
        /\ (\A j \in 1..Len(input) : input[j].Type \in Openers \cup Leaves) =>
               /\ output.err.kind = "unclosed"
               /\ output.err.at = Max(OpenersAt(input))

\* C7 witness: two constructs are left open, and the error names the inner one,
\* which does not start at token 0.
C7_NestedUnclosedReached ==
    /\ stage = "compiled"
    /\ Cardinality(UnclosedAt(input)) >= 2
    /\ NamesUnclosed(input, output.err)
    /\ output.err.at > 0

-----------------------------------------------------------------------------
(* parseSwitch on switches with text, case and default tags between the      *)
(* <{switch}> and the <{/switch}>                                            *)

SwitchAlphabet == {TokText, TokOther, TokCase, TokDefault}

InitSwitch ==
    /\ CacheInit
    /\ input \in {<<TokSwitch>> \o body \o <<TokEndSwitch>> :
                     body \in SeqsUpTo(SwitchAlphabet, MaxBody)}
    /\ stage = "tokens"
    /\ output = NoOutput

SpecSwitch == InitSwitch /\ [][NextParse]_vars

\* the bodies of a switch as written: the content before the first case or default
\* tag (block "lead"), and the content after each case and default tag
NewBlock(t) ==
    IF t.Type = "TCase" THEN [block |-> "case", label |-> t.Value, body |-> <<>>]
    ELSE [block |-> "default", label |-> <<>>, body |-> <<>>]

RECURSIVE Blocks(_, _)
Blocks(tokens, acc) ==
    IF tokens = <<>> THEN acc
    ELSE IF Head(tokens).Type \in {"TCase", "TDefault"}
         THEN Blocks(Tail(tokens), Append(acc, NewBlock(Head(tokens))))
    ELSE Blocks(Tail(tokens),
                [acc EXCEPT ![Len(acc)].body = Append(@, TextNode(Head(tokens).Value))])

SwitchBlocks(tokens) ==
    Blocks(SubSeq(tokens, 2, Len(tokens) - 1),
           <<[block |-> "lead", label |-> <<>>, body |-> <<>>]>>)

IsCaseBlock(b) == b.block = "case"
\* an unlabelled body the template supplies: a default block, or content before
\* the first case
IsSupplied(b) == b.block = "default" \/ (b.block = "lead" /\ b.body # <<>>)
IsNonEmptyUnlabelled(b) == b.block # "case" /\ b.body # <<>>

CasesOf(blocks) ==
    [i \in 1..Len(SelectSeq(blocks, IsCaseBlock)) |->
        SwitchCase(SelectSeq(blocks, IsCaseBlock)[i].label,
                   SelectSeq(blocks, IsCaseBlock)[i].body)]

LastBody(blocks) == IF blocks = <<>> THEN <<>> ELSE blocks[Len(blocks)].body

\* C9 as stated: the default of the SwitchNode is the body of the last unlabelled
\* body supplied before <{/switch}>, and the cases are the labelled bodies in order.
C9_LastUnlabelledIsDefault ==
    stage = "compiled" =>
        /\ output.err = NoErr
        /\ Len(output.nodes) = 1
        /\ output.nodes[1].Cases = CasesOf(SwitchBlocks(input))
        /\ output.nodes[1].Default
               = LastBody(SelectSeq(SwitchBlocks(input), IsSupplied))

\* C9 amended: the default of the SwitchNode is the last non-empty unlabelled body
\* (an empty one does not replace an earlier one), and the cases are the labelled
\* bodies in order.
C9_LastNonEmptyIsDefault ==
    stage = "compiled" =>
        /\ output.err = NoErr
        /\ Len(output.nodes) = 1
        /\ output.nodes[1].Cases = CasesOf(SwitchBlocks(input))
        /\ output.nodes[1].Default
               = LastBody(SelectSeq(SwitchBlocks(input), IsNonEmptyUnlabelled))

\* C9 witness: content before the first case and a later default block, both
\* non-empty and different, with a case between them; the later one is the default.
C9_TwoDefaultsReached ==
    /\ stage = "compiled"
    /\ Len(SelectSeq(SwitchBlocks(input), IsNonEmptyUnlabelled)) >= 2
    /\ SelectSeq(SwitchBlocks(input), IsNonEmptyUnlabelled)[1].body
           # LastBody(SelectSeq(SwitchBlocks(input), IsNonEmptyUnlabelled))
    /\ Len(output.nodes[1].Cases) >= 1
    /\ output.nodes[1].Default
           = LastBody(SelectSeq(SwitchBlocks(input), IsNonEmptyUnlabelled))

-----------------------------------------------------------------------------
(* evalCondition on chains of simple conditions *)

CondData == [k \in {<<"a">>, <<"b">>} |-> IntV(1)]

CondTrue == TrueWord
CondFalse == FalseWord
CondVar == <<"a">>
CondCmp == <<"b", " ", ">", " ", "1">>

\* the simple conditions of the chains and what each is under CondData
Conds == {CondTrue, CondFalse, CondVar, CondCmp}
TruthOf(c) == c \in {CondTrue, CondVar}

Chains ==
    UNION {[conds : [1..n -> Conds], ops : [1..(n - 1) -> {AndWord, OrWord}]] :
              n \in 1..MaxConds}

\* the chain as the text of an expression: c1 op1 c2 op2 ... cn
RECURSIVE ChainText(_, _)
ChainText(chain, i) ==
    IF i > Len(chain.conds) THEN <<>>
    ELSE (IF i = 1 THEN <<>> ELSE <<" ">> \o chain.ops[i - 1] \o <<" ">>)
         \o chain.conds[i] \o ChainText(chain, i + 1)

InitCond == CacheInit /\ input \in Chains /\ stage = "expr" /\ output = NoOutput

\* ok, err := evalCondition(expr, data)
EvaluateCond ==
    /\ stage = "expr"
    /\ stage' = "evaluated"
    /\ output' = [output EXCEPT !.res = evalCondition(ChainText(input, 1), CondData)]
    /\ UNCHANGED <<input, cacheVars>>

NextCond == EvaluateCond

SpecCond == InitCond /\ [][NextCond]_vars

\* (((c1 op1 c2) op2 c3) ... cn), from the (i)th condition on with acc the value
\* of those before it
RECURSIVE LeftFold(_, _, _)
LeftFold(chain, i, acc) ==
    IF i > Len(chain.conds) THEN acc
    ELSE LeftFold(chain, i + 1,
                  IF chain.ops[i - 1] = AndWord THEN acc /\ TruthOf(chain.conds[i])
                  ELSE acc \/ TruthOf(chain.conds[i]))

\* C8: evalCondition on c1 op1 c2 ... cn returns, without error, the left fold
\* (((c1 op1 c2) op2 c3) ... cn): and/or have no precedence over each other.
C8_LeftToRight ==
    stage = "evaluated" =>
        output.res = Truth(LeftFold(input, 2, TruthOf(input.conds[1])))

\* C8 witness: a chain "c1 or c2 and c3" with c1 true and c3 false came out false,
\* where "and" binding tighter would make it true.
C8_NoPrecedenceReached ==
    /\ stage = "evaluated"
    /\ Len(input.conds) = 3
    /\ input.ops = <<OrWord, AndWord>>
    /\ TruthOf(input.conds[1]) /\ ~TruthOf(input.conds[3])
    /\ output.res = Truth(FALSE)

-----------------------------------------------------------------------------
(* compareValues on pairs of values *)

CmpValues == {BoolV(TRUE), BoolV(FALSE), IntV(0), IntV(1), StrV(<<"a">>), Nil}

InitCmp ==
    /\ CacheInit
    /\ input \in [a : CmpValues, b : CmpValues, op : CompOps]
    /\ stage = "operands"
    /\ output = NoOutput

\* ok, err := compareValues(a, b, op)
CompareInput ==
    /\ stage = "operands"
    /\ stage' = "compared"
    /\ output' = [output EXCEPT !.res = compareValues(input.a, input.b, input.op)]
    /\ UNCHANGED <<input, cacheVars>>

NextCmp == CompareInput

SpecCmp == InitCmp /\ [][NextCmp]_vars

\* C10: on two booleans compareValues gives a result for == and != only; for
\* >, <, >= and <= it reports an evaluation error.
C10_BoolOrderingIsError ==
    (stage = "compared" /\ input.a.t = "bool" /\ input.b.t = "bool") =>
        IF input.op = "==" THEN output.res = Truth(input.a.v = input.b.v)
        ELSE IF input.op = "!=" THEN output.res = Truth(input.a.v # input.b.v)
        ELSE output.res.err # "none"

-----------------------------------------------------------------------------
(* evalCondition on arbitrary word sequences, logical keywords at any place *)

MaxWords == 3       \* words of a condition string

CondWords == {<<"a">>, <<"0">>, AndWord, OrWord}

\* the words joined by single spaces
RECURSIVE JoinWords(_)
JoinWords(ws) ==
    IF ws = <<>> THEN <<>>
    ELSE IF Len(ws) = 1 THEN Head(ws)
    ELSE Head(ws) \o <<" ">> \o JoinWords(Tail(ws))

InitWords ==
    /\ CacheInit
    /\ input \in {JoinWords(ws) : ws \in SeqsUpTo(CondWords, MaxWords)}
    /\ stage = "condition"
    /\ output = NoOutput

\* tokens := splitLogical(expr), as evalCondition's first statement
SplitCondition ==
    /\ stage = "condition"
    /\ stage' = "split"
    /\ output' = [output EXCEPT !.tokens = splitLogical(input)]
    /\ UNCHANGED <<input, cacheVars>>

\* the rest of evalCondition on the list splitLogical returned
EvaluateSplit ==
    /\ stage = "split"
    /\ stage' = "decided"
    /\ output' = [output EXCEPT !.res = CondTokens(output.tokens, CondData)]
    /\ UNCHANGED <<input, cacheVars>>

NextWords == SplitCondition \/ EvaluateSplit

SpecWords == InitWords /\ [][NextWords]_vars

IsKeyword(w) == w = AndWord \/ w = OrWord

\* cond, op, cond, ..., cond: empty, or of odd length with the keywords at the
\* even places (counted from 1) and only there
Alternating(parts) ==
    \/ parts = <<>>
    \/ /\ Len(parts) % 2 = 1
       /\ \A i \in 1..Len(parts) : IsKeyword(parts[i]) <=> i % 2 = 0

\* C11: for every condition string the list of splitLogical alternates cond, op,
\* cond, ..., cond, and evalCondition returns a (bool, error) result without
\* reading past the end of the list.
C11_SplitAlternates ==
    /\ stage \in {"split", "decided"} => Alternating(output.tokens)
    /\ stage = "decided" => output.res.err # PanicIndex

-----------------------------------------------------------------------------
(* evalConditionWithValue on case expressions without comparison operator *)

\* the case expressions: a quoted string, an empty quoted string, numbers,
\* booleans and a word that is no key of the context; with the literal each
\* stands for and whether that literal is truthy
CaseExprs ==
    {[text |-> <<"\"", "x", "\"">>, lit |-> StrV(<<"x">>), truthy |-> TRUE],
     [text |-> <<"\"", "\"">>, lit |-> StrV(<<>>), truthy |-> FALSE],
     [text |-> <<"7">>, lit |-> IntV(7), truthy |-> TRUE],
     [text |-> <<"5">>, lit |-> IntV(5), truthy |-> TRUE],
     [text |-> <<"0">>, lit |-> IntV(0), truthy |-> FALSE],
     [text |-> TrueWord, lit |-> BoolV(TRUE), truthy |-> TRUE],
     [text |-> FalseWord, lit |-> BoolV(FALSE), truthy |-> FALSE],
     [text |-> <<"z", "z">>, lit |-> StrV(<<"z", "z">>), truthy |-> TRUE]}

Subjects ==
    {IntV(5), IntV(7), IntV(0), StrV(<<"x">>), StrV(<<"z", "z">>), StrV(<<"5">>),
     BoolV(TRUE), BoolV(FALSE), Nil}

InitCase ==
    /\ CacheInit
    /\ input \in [case : CaseExprs, value : Subjects]
    /\ stage = "case"
    /\ output = NoOutput

\* ok, err := evalConditionWithValue(c.Cond, subject, data)
MatchCase ==
    /\ stage = "case"
    /\ stage' = "matched"
    /\ output' = [output EXCEPT
                     !.res = evalConditionWithValue(input.case.text, input.value, CondData)]
    /\ UNCHANGED <<input, cacheVars>>

NextCase == MatchCase

SpecCase == InitCase /\ [][NextCase]_vars

\* the subject equals the literal under the comparison rules, or prints like it
SameValue(value, lit) ==
    \/ compareValues(value, lit, "==") = Truth(TRUE)
    \/ Sprint(value) = Sprint(lit)

\* C12 as stated: a case expression that is a plain literal or bare word matches
\* only a subject that equals the literal or has the same textual representation,
\* and the match reports no error.
C12_MatchOnlyIfSame ==
    stage = "matched" =>
        output.res = Truth(SameValue(input.value, input.case.lit))

\* what the code computes for such a case expression: it also matches when the
\* literal, evaluated as a condition of its own (eval.go 226-230), is truthy,
\* whatever the subject is
MatchesWhenTruthy ==
    stage = "matched" =>
        output.res = Truth(SameValue(input.value, input.case.lit) \/ input.case.truthy)

=============================================================================
